---- MODULE Spec2Model ----
(***************************************************************************)
(* Model of the Sapiens Blender extension (src/sapiens-blender/__init__.py) *)
(*                                                                         *)
(* The scene is bpy.data.objects (a sequence, in iteration order), the     *)
(* active object, bpy.data.materials and the saved state of the blend      *)
(* file.  Every operator is one action; the calls an operator makes to the *)
(* glTF exporter are logged in gltf_calls together with the scene as the   *)
(* exporter sees it.                                                        *)
(*                                                                         *)
(* Abstractions:                                                            *)
(*  - strings are sequences of one-character strings;                       *)
(*  - a transform (4x4 matrix / location, rotation, scale) is an integer,   *)
(*    composition is +, the identity is 0;                                  *)
(*  - matrix_world is a stored field that Blender recomputes from the       *)
(*    local transforms when the view layer is updated, which happens        *)
(*    before and after every bpy.ops call;                                  *)
(*  - material values are integers in units of 1/10000.                     *)
(***************************************************************************)
EXTENDS Integers, Sequences, FiniteSets, TLC

VARIABLES
    saved,        \* Path(bpy.data.filepath).exists()
    objects,      \* bpy.data.objects, in iteration order
    active,       \* context.view_layer.objects.active (0 is None)
    materials,    \* bpy.data.materials, in iteration order
    gltf_calls,   \* the bpy.ops.export_scene.gltf calls of the last operator
    op,           \* the operator that ran last
    result,       \* what it returned ("ERROR": it raised)
    before,       \* the scene immediately before it ran
    json          \* json_to_material: the record passed in and the material returned

vars == <<saved, objects, active, materials, gltf_calls, op, result, before, json>>

\* ---------------------------------------------------------------- bounds
MaxObjects == 2
MaxMaterials == 2

\* ---------------------------------------------------------------- strings
None == 0
Identity == 0

Contains(s, c) == \E i \in 1..Len(s) : s[i] = c

\* index of the first occurrence of c in s, 0 when there is none
Find(s, c) ==
    IF Contains(s, c)
    THEN CHOOSE i \in 1..Len(s) : s[i] = c /\ \A j \in 1..(i - 1) : s[j] # c
    ELSE 0

\* s.split(c)[0]
Split0(s, c) == IF Contains(s, c) THEN SubSeq(s, 1, Find(s, c) - 1) ELSE s

\* s.split(c)[1], for s that contains c
Split1(s, c) == Split0(SubSeq(s, Find(s, c) + 1, Len(s)), c)

IsDigit(c) == c \in {"0", "1", "2", "3", "4", "5", "6", "7", "8", "9"}

Glb == <<".", "g", "l", "b">>
OriginalSuffix == <<"_", "o", "r", "i", "g", "i", "n", "a", "l">>

\* ---------------------------------------------------------------- scene graph
Ids(objs) == {objs[i].id : i \in DOMAIN objs}
IndexOfId(objs, id) == CHOOSE i \in DOMAIN objs : objs[i].id = id
ById(objs, id) == objs[IndexOfId(objs, id)]
Names(objs) == {objs[i].name : i \in DOMAIN objs}
Meshes(objs) == {i \in DOMAIN objs : objs[i].type = "MESH"}
Selected(objs) == {objs[i].id : i \in {j \in DOMAIN objs : objs[j].select}}

\* Evaluated world transform: the parent's world transform composed with
\* the object's own location/rotation/scale.
RECURSIVE EvalWorld(_, _)
EvalWorld(objs, id) ==
    LET o == ById(objs, id)
    IN  IF o.parent = None
        THEN o.matrix_basis
        ELSE EvalWorld(objs, o.parent) + o.matrix_basis

\* view_layer.update(): matrix_world of every object is re-evaluated
ViewLayerUpdate(objs) ==
    [i \in DOMAIN objs |-> [objs[i] EXCEPT !.matrix_world = EvalWorld(objs, objs[i].id)]]

\* obj.matrix_world = m : stores m and derives location/rotation/scale from
\* it relative to the parent's current matrix_world
SetMatrixWorld(objs, i, m) ==
    LET o == objs[i]
        pm == IF o.parent = None THEN Identity ELSE ById(objs, o.parent).matrix_world
    IN  [objs EXCEPT ![i] = [o EXCEPT !.matrix_world = m, !.matrix_basis = m - pm]]

\* bpy.ops.object.select_all(action='DESELECT')
SelectAllDeselect(objs) ==
    ViewLayerUpdate([i \in DOMAIN objs |-> [objs[i] EXCEPT !.select = FALSE]])

\* bpy.ops.export_scene.gltf(filepath=..., use_selection=True): the call is
\* logged with the evaluated scene the exporter reads
GltfCall(objs, act, filepath) ==
    [filepath |-> filepath, selected |-> Selected(objs),
     objects |-> ViewLayerUpdate(objs), active |-> act]

\* ---------------------------------------------------------------- export folder
\* get_export_folder: False for an unsaved file, else the export directory
get_export_folder == IF ~saved THEN FALSE ELSE TRUE

\* ---------------------------------------------------------------- sapiens.export_parts
\* mutant: the name is cut at the first '.' only
get_model_name_dot_only(mesh_name) ==
    IF Contains(mesh_name, ".") THEN Split0(mesh_name, ".") ELSE mesh_name

get_model_name(mesh_name) ==
    LET n1 == IF Contains(mesh_name, ".") THEN Split0(mesh_name, ".") ELSE mesh_name
    IN  IF Contains(n1, "_") THEN Split0(n1, "_") ELSE n1

\* mutant: the cached matrix is not written back after the export
export_parts_body_no_restore(st, i) ==
    LET obj == st.objects[i]
        o1 == SelectAllDeselect(st.objects)
        o3 == [o1 EXCEPT ![i].select = TRUE, ![i].matrix_basis = Identity]
        call == GltfCall(o3, obj.id, get_model_name(obj.name) \o Glb)
    IN  [objects |-> ViewLayerUpdate(o3), active |-> obj.id,
         exported_models |-> Append(st.exported_models, get_model_name(obj.name)),
         calls |-> Append(st.calls, call)]

\* one iteration of the loop over bpy.data.objects, for the mesh at index i
\* whose model name was not exported yet
export_parts_body(st, i) ==
    LET obj == st.objects[i]
        model_name == get_model_name(obj.name)
        o1 == SelectAllDeselect(st.objects)
        cached_matrix == o1[i].matrix_world
        o2 == [o1 EXCEPT ![i].select = TRUE]
        o3 == [o2 EXCEPT ![i].matrix_basis = Identity]
        call == GltfCall(o3, obj.id, model_name \o Glb)
        o4 == SetMatrixWorld(ViewLayerUpdate(o3), i, cached_matrix)
    IN  [objects |-> o4, active |-> obj.id,
         exported_models |-> Append(st.exported_models, model_name),
         calls |-> Append(st.calls, call)]

RECURSIVE export_parts_loop(_, _)
export_parts_loop(st, i) ==
    IF i > Len(st.objects) THEN st
    ELSE IF st.objects[i].type # "MESH" THEN export_parts_loop(st, i + 1)
    ELSE IF \E k \in DOMAIN st.exported_models :
                st.exported_models[k] = get_model_name(st.objects[i].name)
         THEN export_parts_loop(st, i + 1)
    ELSE export_parts_loop(export_parts_body(st, i), i + 1)

\* restore the previous selection and active object
export_parts_restore(objs, original_selection) ==
    LET o1 == SelectAllDeselect(objs)
    IN  [i \in DOMAIN o1 |->
            IF o1[i].id \in original_selection THEN [o1[i] EXCEPT !.select = TRUE] ELSE o1[i]]

Snapshot == [objects |-> objects, active |-> active, materials |-> materials]

ExportParts ==
    /\ op' = "export_parts"
    /\ before' = Snapshot
    /\ UNCHANGED <<saved, materials, json>>
    /\ IF ~saved \/ get_export_folder = FALSE
       THEN /\ result' = "CANCELLED"
            /\ gltf_calls' = <<>>
            /\ UNCHANGED <<objects, active>>
       ELSE LET original_selection == Selected(objects)
                original_active == active
                st == export_parts_loop(
                        [objects |-> objects, active |-> active,
                         exported_models |-> <<>>, calls |-> <<>>], 1)
            IN  /\ objects' = export_parts_restore(st.objects, original_selection)
                /\ active' = original_active
                /\ gltf_calls' = st.calls
                \* the final report reads export_path, which is bound only
                \* inside the loop body
                /\ result' = IF st.exported_models = <<>> THEN "ERROR" ELSE "FINISHED"

\* ---------------------------------------------------------------- sapiens.export_empties
Digits == <<"0", "1", "2", "3", "4", "5", "6", "7", "8", "9">>

\* str(n) for n >= 0
RECURSIVE Str(_)
Str(n) == IF n < 10 THEN <<Digits[n + 1]>> ELSE Str(n \div 10) \o <<Digits[(n % 10) + 1]>>

\* Blender keeps the names of bpy.data.objects unique: a name that is taken
\* is given the first free numeric suffix .001, .002, ...
UniqueName(name, taken) ==
    IF name \notin taken THEN name
    ELSE LET cand(k) == name \o <<".", "0", "0">> \o Str(k)
             k0 == CHOOSE k \in 1..9 :
                        cand(k) \notin taken /\ \A j \in 1..(k - 1) : cand(j) \in taken
         IN  cand(k0)

CountOf(model_counts, n) == IF n \in DOMAIN model_counts THEN model_counts[n] ELSE 0

\* get_empty_name: the stripped name used as the key of model_counts
empty_base_name(mesh_name) ==
    LET n1 == IF Contains(mesh_name, ".") THEN Split0(mesh_name, ".") ELSE mesh_name
    IN  IF Contains(n1, "_") THEN Split1(n1, "_") ELSE n1

get_empty_name(mesh_name, model_counts) ==
    LET n == empty_base_name(mesh_name)
        index == CountOf(model_counts, n) + 1
    IN  [name |-> n \o <<"_">> \o Str(index),
         counts |-> [x \in DOMAIN model_counts \cup {n} |->
                        IF x = n THEN index ELSE model_counts[x]]]

FreshId(objs) ==
    CHOOSE id \in 1..(Len(objs) + 1) : id \notin Ids(objs) /\ \A j \in 1..(id - 1) : j \in Ids(objs)

\* bpy.data.objects.new(name, None): an unlinked, unselected empty at the origin
NewEmpty(objs, name) ==
    [id |-> FreshId(objs), name |-> UniqueName(name, Names(objs)), type |-> "EMPTY",
     matrix_basis |-> Identity, parent |-> None, matrix_world |-> Identity,
     select |-> FALSE, hide_viewport |-> FALSE, hide_render |-> FALSE,
     users_collection |-> {}, material_slots |-> <<>>]

\* the body of the first loop, for the mesh at index i
export_empties_replace(st, i) ==
    LET obj == st.objects[i]
        original_name == obj.name
        renamed_name == original_name \o OriginalSuffix
        o1 == [st.objects EXCEPT ![i].name =
                    UniqueName(renamed_name, Names(st.objects) \ {original_name})]
        en == get_empty_name(original_name, st.counts)
        e0 == NewEmpty(o1, en.name)
        k  == Len(o1) + 1
        o2 == SetMatrixWorld(Append(o1, e0), k, obj.matrix_world)
        o3 == [o2 EXCEPT ![k].parent = obj.parent,
                         ![k].hide_viewport = obj.hide_viewport,
                         ![k].hide_render = obj.hide_render,
                         ![k].users_collection = obj.users_collection]
    IN  [objects |-> o3, counts |-> en.counts,
         replacements |-> Append(st.replacements, <<obj.id, e0.id, original_name>>)]

\* the first loop runs over the n objects the scene had when it started
RECURSIVE export_empties_loop(_, _, _)
export_empties_loop(st, i, n) ==
    IF i > n THEN st
    ELSE IF st.objects[i].type = "MESH"
         THEN export_empties_loop(export_empties_replace(st, i), i + 1, n)
         ELSE export_empties_loop(st, i + 1, n)

\* select only empties (new and existing) and cameras
export_empties_select(objs) ==
    LET o1 == SelectAllDeselect(objs)
    IN  [i \in DOMAIN o1 |->
            IF o1[i].type \in {"EMPTY", "CAMERA"} THEN [o1[i] EXCEPT !.select = TRUE] ELSE o1[i]]

\* bpy.data.objects.remove(empty)
RemoveObject(objs, id) == SelectSeq(objs, LAMBDA o : o.id # id)

\* restore scene: remove each empty and rename its mesh back
RECURSIVE export_empties_restore(_, _, _)
export_empties_restore(objs, replacements, r) ==
    IF r > Len(replacements) THEN objs
    ELSE LET mesh_id == replacements[r][1]
             o1 == RemoveObject(objs, replacements[r][2])
             m  == IndexOfId(o1, mesh_id)
             o2 == [o1 EXCEPT ![m].name =
                        UniqueName(replacements[r][3], Names(o1) \ {o1[m].name})]
         IN  export_empties_restore(o2, replacements, r + 1)

ExportStem == <<"s", "c", "e", "n", "e">>

ExportEmpties ==
    /\ op' = "export_empties"
    /\ before' = Snapshot
    /\ UNCHANGED <<saved, materials, json>>
    /\ IF get_export_folder = FALSE
       THEN \* get_export_path divides False by a Path: TypeError
            /\ result' = "ERROR"
            /\ gltf_calls' = <<>>
            /\ UNCHANGED <<objects, active>>
       ELSE LET st == export_empties_loop(
                        [objects |-> objects, counts |-> <<>>, replacements |-> <<>>],
                        1, Len(objects))
                sel == export_empties_select(st.objects)
                act == IF st.replacements # <<>> THEN st.replacements[1][2] ELSE None
                call == GltfCall(sel, act, ExportStem)
                rest == export_empties_restore(ViewLayerUpdate(sel), st.replacements, 1)
            IN  /\ gltf_calls' = <<call>>
                /\ objects' = rest
                \* the active object was an empty that has been removed
                /\ active' = IF act \in Ids(rest) THEN act ELSE None
                /\ result' = "FINISHED"

\* ---------------------------------------------------------------- materials
MatIds(mats) == {mats[i].id : i \in DOMAIN mats}
MatIndex(mats, id) == CHOOSE i \in DOMAIN mats : mats[i].id = id

\* bpy.data.materials.get(name): the material's id, None when there is none
MaterialsGet(mats, name) ==
    IF \E i \in DOMAIN mats : mats[i].name = name
    THEN mats[CHOOSE i \in DOMAIN mats : mats[i].name = name].id
    ELSE None

\* ---------------------------------------------------------------- sapiens.remove_duplicate_materials
\* suffix_pattern = (.*)\.(\d{3})$
suffix_pattern_match(name) ==
    /\ Len(name) >= 4
    /\ name[Len(name) - 3] = "."
    /\ \A k \in (Len(name) - 2)..Len(name) : IsDigit(name[k])

\* match.group(1)
suffix_pattern_group1(name) == SubSeq(name, 1, Len(name) - 4)

\* slot.material = base_mat for every slot of every mesh that uses mat
ReplaceUsers(objs, mat, base_mat) ==
    [i \in DOMAIN objs |->
        IF objs[i].type = "MESH"
        THEN [objs[i] EXCEPT !.material_slots =
                [k \in DOMAIN objs[i].material_slots |->
                    IF objs[i].material_slots[k] = mat THEN base_mat
                    ELSE objs[i].material_slots[k]]]
        ELSE objs[i]]

\* bpy.data.materials.remove(mat): the slots that still use it are emptied
MaterialsRemove(st, mat) ==
    [materials |-> SelectSeq(st.materials, LAMBDA m : m.id # mat),
     objects |-> [i \in DOMAIN st.objects |->
        [st.objects[i] EXCEPT !.material_slots =
            [k \in DOMAIN st.objects[i].material_slots |->
                IF st.objects[i].material_slots[k] = mat THEN None
                ELSE st.objects[i].material_slots[k]]]]]

\* the loop body for the material with id mat
remove_duplicate_step(st, mat) ==
    LET name == st.materials[MatIndex(st.materials, mat)].name
        base_name == suffix_pattern_group1(name)
        base_mat == MaterialsGet(st.materials, base_name)
    IN  IF ~suffix_pattern_match(name) THEN st
        ELSE IF base_mat # None
        THEN MaterialsRemove(
                [st EXCEPT !.objects = ReplaceUsers(st.objects, mat, base_mat)], mat)
        ELSE [st EXCEPT !.materials[MatIndex(st.materials, mat)].name = base_name]

\* for mat in list(bpy.data.materials)
RECURSIVE remove_duplicate_loop(_, _, _)
remove_duplicate_loop(st, snapshot, i) ==
    IF i > Len(snapshot) THEN st
    ELSE remove_duplicate_loop(remove_duplicate_step(st, snapshot[i]), snapshot, i + 1)

RemoveDuplicateMaterials ==
    LET snapshot == [i \in DOMAIN materials |-> materials[i].id]
        st == remove_duplicate_loop([materials |-> materials, objects |-> objects], snapshot, 1)
    IN  /\ op' = "remove_duplicate_materials"
        /\ before' = Snapshot
        /\ materials' = st.materials
        /\ objects' = st.objects
        /\ result' = "FINISHED"
        /\ gltf_calls' = <<>>
        /\ UNCHANGED <<saved, active, json>>

\* ---------------------------------------------------------------- MaterialFile
\* round(x, 3) on values in units of 1/10000 (ties go to the even neighbour)
Round3(v) ==
    LET q == v \div 10
        r == v % 10
    IN  IF r < 5 THEN 10 * q
        ELSE IF r > 5 THEN 10 * (q + 1)
        ELSE IF q % 2 = 0 THEN 10 * q ELSE 10 * (q + 1)

NoJson == [none |-> TRUE]
NoTree == [exists |-> FALSE, nodes |-> <<>>]

OutputNode == [type |-> "OUTPUT_MATERIAL", inputs |-> [Surface |-> 0]]
BsdfNode(color, metal, roughness) ==
    [type |-> "BSDF_PRINCIPLED",
     inputs |-> [BaseColor |-> color, Metallic |-> metal, Roughness |-> roughness]]
\* the node a new ShaderNodeBsdfPrincipled starts as
DefaultBsdf == BsdfNode(<<8000, 8000, 8000, 10000>>, 0, 5000)

material_to_json(material) ==
    LET nodes == material.node_tree.nodes
        found == material.use_nodes /\ \E k \in DOMAIN nodes : nodes[k].type = "BSDF_PRINCIPLED"
    IN  IF ~found THEN NoJson
        ELSE LET bsdf == nodes[CHOOSE k \in DOMAIN nodes :
                            /\ nodes[k].type = "BSDF_PRINCIPLED"
                            /\ \A j \in 1..(k - 1) : nodes[j].type # "BSDF_PRINCIPLED"]
                 color == SubSeq(bsdf.inputs.BaseColor, 1, 3)
             IN  [identifier |-> material.name,
                  color |-> [k \in DOMAIN color |-> Round3(color[k])],
                  metal |-> Round3(bsdf.inputs.Metallic),
                  roughness |-> Round3(bsdf.inputs.Roughness)]

\* data.get(key, default)
DataGet(data, key, default) == IF key \in DOMAIN data THEN data[key] ELSE default

FreshMatId(mats) ==
    CHOOSE id \in 1..(Len(mats) + 1) : id \notin MatIds(mats) /\ \A j \in 1..(id - 1) : j \in MatIds(mats)

\* json_to_material: the materials afterwards, the material returned and
\* whether the call raised (node_tree of a material that never used nodes is None)
json_to_material(mats, data) ==
    LET name == DataGet(data, "identifier", <<"M", "a", "t", "e", "r", "i", "a", "l">>)
        color == DataGet(data, "color", <<10000, 10000, 10000>>)
        metal == DataGet(data, "metal", 0)
        roughness == DataGet(data, "roughness", 5000)
        found == MaterialsGet(mats, name)
        m1 == IF found # None THEN mats
              ELSE Append(mats, [id |-> FreshMatId(mats), name |-> name, use_nodes |-> TRUE,
                                 node_tree |-> [exists |-> TRUE,
                                                nodes |-> <<DefaultBsdf, OutputNode>>]])
        id == IF found # None THEN found ELSE FreshMatId(mats)
        k  == MatIndex(m1, id)
        nodes == <<OutputNode, BsdfNode(color \o <<10000>>, metal, roughness)>>
    IN  IF ~m1[k].node_tree.exists
        THEN [materials |-> m1, material |-> None, raised |-> TRUE]
        ELSE [materials |-> [m1 EXCEPT ![k].node_tree.nodes = nodes],
              material |-> id, raised |-> FALSE]

JsonToMaterial(data) ==
    LET r == json_to_material(materials, data)
    IN  /\ op' = "json_to_material"
        /\ materials' = r.materials
        /\ json' = [data |-> data, material |-> r.material]
        /\ result' = IF r.raised THEN "ERROR" ELSE "FINISHED"
        /\ gltf_calls' = <<>>
        /\ UNCHANGED <<saved, objects, active, before>>

\* ---------------------------------------------------------------- initial scenes
ObjNames ==
    { <<"a">>, <<"a", "_", "x", ".", "0">>, <<"b", "_", "a">> }
ObjTypes == {"MESH", "EMPTY", "CAMERA"}
Transforms == {0, 1}

Object(id, name, type, basis, parent, sel, hv, hr, colls) ==
    [id |-> id, name |-> name, type |-> type, matrix_basis |-> basis,
     parent |-> parent, matrix_world |-> basis, select |-> sel,
     hide_viewport |-> hv, hide_render |-> hr, users_collection |-> colls,
     material_slots |-> <<>>]

RECURSIVE Acyclic(_, _, _)
Acyclic(objs, id, n) ==
    IF ById(objs, id).parent = None THEN TRUE
    ELSE IF n = 0 THEN FALSE
    ELSE Acyclic(objs, ById(objs, id).parent, n - 1)

WellFormed(objs) ==
    /\ \A i, j \in DOMAIN objs : i # j => objs[i].name # objs[j].name
    /\ \A i \in DOMAIN objs : objs[i].parent \in (Ids(objs) \cup {None}) \ {objs[i].id}
    /\ \A i \in DOMAIN objs : Acyclic(objs, objs[i].id, Len(objs))

InitParts ==
    /\ saved \in BOOLEAN
    /\ \E n \in 0..MaxObjects :
         \E nm \in [1..n -> ObjNames], ty \in [1..n -> {"MESH", "EMPTY"}],
            tr \in [1..n -> Transforms], pa \in [1..n -> 0..n], se \in [1..n -> BOOLEAN] :
            LET objs == [i \in 1..n |->
                            Object(i, nm[i], ty[i], tr[i], pa[i], se[i], FALSE, FALSE, {1})]
            IN  /\ WellFormed(objs)
                /\ objects = ViewLayerUpdate(objs)
    /\ saved \/ Len(objects) <= 1
    /\ active \in {None} \cup Ids(objects)
    /\ materials = <<>>
    /\ gltf_calls = <<>>
    /\ op = "none"
    /\ result = "none"
    /\ before = [objects |-> <<>>, active |-> None, materials |-> <<>>]
    /\ json = [data |-> <<>>, material |-> None]

NextParts == ExportParts

SpecParts == InitParts /\ [][NextParts]_vars

EmptiesNames ==
    { <<"a", "_", "x">>, <<"x", "_", "1">>, <<"b", ".", "0">> }
VisStyles == { <<FALSE, FALSE, {1}>>, <<TRUE, TRUE, {1, 2}>> }

InitEmpties ==
    /\ saved \in BOOLEAN
    /\ \E n \in 0..MaxObjects :
         \E nm \in [1..n -> EmptiesNames], ty \in [1..n -> ObjTypes],
            tr \in [1..n -> Transforms], pa \in [1..n -> 0..n], se \in [1..n -> BOOLEAN],
            vi \in [1..n -> VisStyles] :
            LET objs == [i \in 1..n |->
                            Object(i, nm[i], ty[i], tr[i], pa[i], se[i],
                                   vi[i][1], vi[i][2], vi[i][3])]
            IN  /\ WellFormed(objs)
                /\ objects = ViewLayerUpdate(objs)
    /\ saved \/ Len(objects) <= 1
    /\ active \in {None} \cup Ids(objects)
    /\ materials = <<>>
    /\ gltf_calls = <<>>
    /\ op = "none"
    /\ result = "none"
    /\ before = [objects |-> <<>>, active |-> None, materials |-> <<>>]
    /\ json = [data |-> <<>>, material |-> None]

NextEmpties == ExportEmpties

SpecEmpties == InitEmpties /\ [][NextEmpties]_vars

\* ---------------------------------------------------------------- properties of export_empties
EmptiesFinished == op = "export_empties" /\ result = "FINISHED"

\* C3 (as claimed): when export_empties finishes, the scene contains exactly
\* the objects it contained before, every mesh has the name it had before, and
\* the selected objects and the active object are what they were before.
C3_EmptiesRestoresState ==
    EmptiesFinished =>
        /\ Ids(objects) = Ids(before.objects)
        /\ Len(objects) = Len(before.objects)
        /\ \A i \in Meshes(before.objects) :
            ById(objects, before.objects[i].id).name = before.objects[i].name
        /\ Selected(objects) = Selected(before.objects)
        /\ active = before.active

\* C4 (as claimed): when export_empties calls the exporter, no mesh is
\* selected, the selection is exactly the empties and cameras, and every mesh
\* has its own newly created empty with the mesh's world transform, parent,
\* visibility flags and collections.
C4_MeshesReplacedAtExport ==
    (op = "export_empties" /\ gltf_calls # <<>>) =>
        LET c == gltf_calls[1]
            old == Ids(before.objects)
            meshIds == {c.objects[i].id : i \in Meshes(c.objects)}
            newEmpties == {id \in Ids(c.objects) \ old : ById(c.objects, id).type = "EMPTY"}
            Replaces(e, m) ==
                /\ e.matrix_world = m.matrix_world
                /\ e.parent = m.parent
                /\ e.hide_viewport = m.hide_viewport
                /\ e.hide_render = m.hide_render
                /\ e.users_collection = m.users_collection
        IN  /\ c.selected \cap meshIds = {}
            /\ c.selected = {id \in Ids(c.objects) :
                                ById(c.objects, id).type \in {"EMPTY", "CAMERA"}}
            /\ Cardinality(newEmpties) = Cardinality(meshIds)
            /\ \E f \in [meshIds -> newEmpties] :
                /\ \A m1, m2 \in meshIds : m1 # m2 => f[m1] # f[m2]
                /\ \A m \in meshIds : Replaces(ById(c.objects, f[m]), ById(c.objects, m))

MatNames ==
    { <<"b">>, <<"b", ".", "0", "0", "1">>, <<"b", ".", "0", "0", "2">>,
      <<"b", ".", "0", "0", "1", ".", "0", "0", "1">>, <<"b", ".", "0", "1">> }
\* a material that never used nodes, one whose nodes are switched off, and
\* node materials with and without a Principled BSDF
MatKinds ==
    { [use_nodes |-> FALSE, node_tree |-> NoTree],
      [use_nodes |-> FALSE,
       node_tree |-> [exists |-> TRUE, nodes |-> <<DefaultBsdf, OutputNode>>]],
      [use_nodes |-> TRUE,
       node_tree |-> [exists |-> TRUE,
                      nodes |-> <<OutputNode, BsdfNode(<<1234, 5005, 0, 10000>>, 5015, 10000)>>]],
      [use_nodes |-> TRUE, node_tree |-> [exists |-> TRUE, nodes |-> <<OutputNode>>]] }

Material(id, name, kind) ==
    [id |-> id, name |-> name, use_nodes |-> kind.use_nodes, node_tree |-> kind.node_tree]

InitMaterials ==
    /\ saved = TRUE
    /\ \E n \in 0..MaxMaterials :
         \E nm \in [1..n -> MatNames], ki \in [1..n -> MatKinds] :
            /\ \A i, j \in 1..n : i # j => nm[i] # nm[j]
            /\ materials = [i \in 1..n |-> Material(i, nm[i], ki[i])]
    /\ \E s1 \in {None} \cup MatIds(materials), s2 \in {None} \cup MatIds(materials) :
         objects = << [Object(1, <<"a">>, "MESH", 0, None, FALSE, FALSE, FALSE, {1})
                            EXCEPT !.material_slots = <<s1>>],
                      [Object(2, <<"c">>, "CURVE", 0, None, FALSE, FALSE, FALSE, {1})
                            EXCEPT !.material_slots = <<s2>>] >>
    /\ active = None
    /\ gltf_calls = <<>>
    /\ op = "none"
    /\ result = "none"
    /\ before = [objects |-> <<>>, active |-> None, materials |-> <<>>]
    /\ json = [data |-> <<>>, material |-> None]

NextMaterials == RemoveDuplicateMaterials

SpecMaterials == InitMaterials /\ [][NextMaterials]_vars

\* the records handed to json_to_material: complete records with values
\* rounded to 3 decimals, and records that leave keys out
JsonRecords ==
    [identifier : {<<"b">>, <<"w">>},
     color : {<<10000, 5000, 0>>, <<1230, 1230, 1230>>},
     metal : {0, 1230}, roughness : {10000}]
    \cup { [identifier |-> <<"w">>], [color |-> <<0, 0, 0>>, metal |-> 10000] }

IsFullRecord(data) == DOMAIN data = {"identifier", "color", "metal", "roughness"}

InitRoundTrip ==
    /\ saved = TRUE
    /\ \E n \in 0..MaxMaterials :
         \E nm \in [1..n -> {<<"b">>, <<"w">>, <<"b", ".", "0", "0", "1">>}],
            ki \in [1..n -> MatKinds] :
            /\ \A i, j \in 1..n : i # j => nm[i] # nm[j]
            /\ materials = [i \in 1..n |-> Material(i, nm[i], ki[i])]
    /\ objects = <<>>
    /\ active = None
    /\ gltf_calls = <<>>
    /\ op = "none"
    /\ result = "none"
    /\ before = [objects |-> <<>>, active |-> None, materials |-> <<>>]
    /\ json = [data |-> <<>>, material |-> None]

NextRoundTrip == \E data \in JsonRecords : JsonToMaterial(data)

SpecRoundTrip == InitRoundTrip /\ [][NextRoundTrip]_vars

\* ---------------------------------------------------------------- properties of the material operators
\* the name ends in a dot followed by exactly three digits
EndsInDuplicateSuffix(name) ==
    \E n \in 1..Len(name) :
        /\ name[n] = "."
        /\ Len(name) - n = 3
        /\ \A k \in (n + 1)..Len(name) : name[k] \in {"0", "1", "2", "3", "4", "5", "6", "7", "8", "9"}

\* C5 (as claimed): after remove_duplicate_materials no material remains
\* whose name ends in a dot followed by exactly three digits.
C5_NoDuplicateSuffixRemains ==
    (op = "remove_duplicate_materials" /\ result = "FINISHED") =>
        \A i \in DOMAIN materials : ~EndsInDuplicateSuffix(materials[i].name)

\* C6 (as claimed): json_to_material followed by material_to_json on the
\* material it returns gives back the record, for every complete record and
\* whether or not a material with that identifier existed.
C6_RoundTrip ==
    (op = "json_to_material" /\ IsFullRecord(json.data)) =>
        /\ result = "FINISHED"
        /\ json.material \in MatIds(materials)
        /\ material_to_json(materials[MatIndex(materials, json.material)]) = json.data

\* ---------------------------------------------------------------- properties of export_parts
\* p is the part of s before the first c (all of s when s has no c)
IsPartBefore(p, s, c) ==
    /\ Len(p) <= Len(s)
    /\ p = SubSeq(s, 1, Len(p))
    /\ ~ \E i \in 1..Len(p) : p[i] = c
    /\ (Len(p) = Len(s) \/ s[Len(p) + 1] = c)

Prefixes(s) == {SubSeq(s, 1, n) : n \in 0..Len(s)}

\* the part of name before the first '.' and, of that, the part before the first '_'
ModelNameOf(name) ==
    CHOOSE m \in Prefixes(name) :
        \E d \in Prefixes(name) : IsPartBefore(d, name, ".") /\ IsPartBefore(m, d, "_")

\* the mesh at index i is the first mesh in iteration order with its model name
FirstOfModel(objs, i) ==
    \A j \in Meshes(objs) : j < i => ModelNameOf(objs[j].name) # ModelNameOf(objs[i].name)

PartsRan == op = "export_parts" /\ result \in {"FINISHED", "ERROR"}
PartsFinished == op = "export_parts" /\ result = "FINISHED"

\* C1 (as claimed): when export_parts finishes, every mesh object had an
\* exporter call made while it was the only selected object, and no two mesh
\* objects share an output file.
C1_EveryMeshExported ==
    PartsFinished =>
        LET objs == before.objects
        IN  /\ \A i \in Meshes(objs) :
                \E k \in DOMAIN gltf_calls : gltf_calls[k].selected = {objs[i].id}
            /\ \A i, j \in Meshes(objs) : \A k, l \in DOMAIN gltf_calls :
                (i # j /\ gltf_calls[k].selected = {objs[i].id}
                       /\ gltf_calls[l].selected = {objs[j].id})
                    => gltf_calls[k].filepath # gltf_calls[l].filepath

\* C2: when export_parts finishes with FINISHED, the selected objects, the
\* active object and the world transform of every object are what they were
\* immediately before the operator ran.
C2_PartsRestoresState ==
    PartsFinished =>
        /\ Selected(objects) = Selected(before.objects)
        /\ active = before.active
        /\ Len(objects) = Len(before.objects)
        /\ \A i \in DOMAIN objects :
            /\ objects[i].id = before.objects[i].id
            /\ objects[i].matrix_world = before.objects[i].matrix_world
            /\ EvalWorld(objects, objects[i].id) = before.objects[i].matrix_world

\* a parented mesh away from the origin was moved to the origin for its
\* export while other objects were selected before the operator ran
C2_Witness ==
    /\ PartsFinished
    /\ \E k \in DOMAIN gltf_calls : \E i \in Meshes(before.objects) :
        /\ gltf_calls[k].selected = {before.objects[i].id}
        /\ before.objects[i].parent # None
        /\ before.objects[i].matrix_basis # Identity
        /\ gltf_calls[k].objects[i].matrix_basis = Identity
        /\ gltf_calls[k].objects[i].matrix_world # before.objects[i].matrix_world
        /\ Selected(before.objects) # {}
        /\ Selected(before.objects) # {before.objects[i].id}
        /\ before.active # before.objects[i].id

====
